---- MODULE Spec2Model ----
(***************************************************************************)
(* The scrape cache of ScrapeCommand                                       *)
(* (calaccess_processed/management/commands/__init__.py): get_html with    *)
(* its freshness check (get_headers), the retried request (get_url) and    *)
(* the fallback to the cached file.                                        *)
(*                                                                         *)
(* One command process issues get_html calls one after the other.  A call  *)
(* is split at its network requests: the entry step runs lines 186-215 up  *)
(* to the first request, every HEAD or GET attempt is one step whose       *)
(* outcome the environment chooses, and the step of the last attempt runs  *)
(* the rest of get_html.  Between calls the command may be run anew with   *)
(* other options (handle); every call meets the network up or down.        *)
(*                                                                         *)
(* The entity resolver of LoadOCDModelsCommand works on the tables of the   *)
(* identity store: get_or_create_person under SpecPerson, handle and       *)
(* get_or_create_post under SpecPost, and these with create_election under *)
(* SpecElection.  SpecFetch is Spec with the site of every cache entry     *)
(* kept, SpecConc steps two invocations of get_html through their          *)
(* operations on one cache file, and SpecHandle steps through the calls of *)
(* ScrapeCommand.handle.  Each specification moves its own variables; the  *)
(* others stand still.                                                     *)
(***************************************************************************)
EXTENDS Integers, Sequences, FiniteSets, TLC

\* ------------------------------------------------------------ bounds
\* Longest page body, in characters.
MaxLen == 1

\* Most create_election calls in a run.
MaxElections == 2

\* --------------------------------------------------------- constants
\* get_headers' `length = None` (line 177): no integer a size can equal.
None == -1

\* The retry bound: one retry after the first attempt.
DefaultRetries == 1

\* ---------------------------------------------------------- universe
Chars == {"a", "b"}

\* response.text: every text of at most MaxLen characters.
Bodies == UNION {[1..n -> Chars] : n \in 0..MaxLen}

\* The relative URLs the scraper asks for; two of them differ only in
\* their slashes.
Urls == {<<"/", "x", "/">>, <<"x">>, <<"y">>}

Statuses == {200, 404}

\* ScrapeCommand.base_url (line 107).
self_base_url == "http://cal-access.ss.ca.gov/"

\* The base_url argument of get_html: None, or another site.
BaseUrls == {"None", "http://other.example/"}

\* The exceptions a request attempt can raise.  Both are subclasses of
\* requests.exceptions.RequestException, the class given to @retry.
RequestException == {"ConnectionError", "HTTPError"}

\* What one HEAD attempt can bring: a response with or without a
\* content-length header, or an exception.  With the network down every
\* attempt raises ConnectionError.
HeadOutcomes(net) ==
    IF net = "down"
    THEN {[kind |-> "ConnectionError"]}
    ELSE {[kind |-> e] : e \in RequestException}
         \cup {[kind |-> "response", headers |-> h] :
                 h \in {<< >>} \cup {[k \in {"content-length"} |-> n] : n \in 0..(MaxLen + 1)}}

\* What one GET attempt can bring: requests.get returns the response
\* whatever its status (line 167), or raises.
GetOutcomes(net) ==
    IF net = "down"
    THEN {[kind |-> "ConnectionError"]}
    ELSE {[kind |-> e] : e \in RequestException}
         \cup {[kind |-> "response", status |-> s, text |-> t] :
                 s \in Statuses, t \in Bodies}

\* ------------------------------------------------------ pure helpers
\* url.strip("/"): leading and trailing slashes removed.
RECURSIVE lstrip(_)
lstrip(s) == IF s # << >> /\ Head(s) = "/" THEN lstrip(Tail(s)) ELSE s

RECURSIVE rstrip(_)
rstrip(s) ==
    IF s # << >> /\ s[Len(s)] = "/" THEN rstrip(SubSeq(s, 1, Len(s) - 1)) ELSE s

strip(s) == rstrip(lstrip(s))

\* cache_path that keeps the slashes at the ends of the URL.
cache_path_Unstripped(url) == url

\* cache_path = os.path.join(cache_dir, url2pathname(url.strip("/"))).
\* The URLs modelled hold no percent-escapes, so url2pathname keeps the
\* stripped text.
cache_path(url) == strip(url)

CachePaths == {cache_path(u) : u \in Urls}

\* urljoin(base_url or self.base_url, url) (line 187): the page on the site.
urljoin(base, url) ==
    [site |-> IF base = "None" THEN self_base_url ELSE base, path |-> url]

\* BeautifulSoup(html, "html.parser"): the parsed document of a text.
BeautifulSoup(html) == [soup |-> html]

\* os.path.getsize of a file holding `text`: its bytes.  The characters
\* modelled are ASCII, one byte each.
getsize(text) == Len(text)

\* get_headers (lines 174-180): the content-length of the response, None
\* when the header is missing.
get_headers(response) ==
    IF "content-length" \in DOMAIN response.headers
    THEN response.headers["content-length"]
    ELSE None

\* TryCache with the force_download test left out.
TryCache_IgnoresForce(exists, fd) == exists

\* Line 196: the cached file is looked at.
TryCache(exists, fd) == exists /\ ~fd

\* ChecksSize that asks for the live size in cache-only mode too.
ChecksSize_Always(uc) == TRUE

\* Line 198: the HEAD request for the size of the live page is made.
ChecksSize(uc) == uc

\* ShouldReuse with "at least" for "equal": a missing content-length, and a
\* live page that shrank, then pass for fresh.
ShouldReuse_AtLeast(uc, csize, wsize) == ~uc \/ csize >= wsize

\* Line 211: the cache is returned.
ShouldReuse(uc, csize, wsize) == ~uc \/ csize = wsize

\* except_HTTPError with the except clause missing.
except_Nothing(exc) == FALSE

\* Line 220: the exceptions the except clause catches.
except_HTTPError(exc) == exc = "HTTPError"

\* retry that allows one attempt more than the bound.
retry_OneMore(exc, made) == exc \in RequestException /\ made <= DefaultRetries + 1

\* @retry(RequestException): after an attempt that raised `exc`, being
\* attempt number `made` of this get_url call, another attempt follows.
retry(exc, made) == exc \in RequestException /\ made <= DefaultRetries

\* write_cache that empties the other files of the directory.
write_cache_Wiping(c, path, html) ==
    [p \in DOMAIN c \cup {path} |-> IF p = path THEN html ELSE << >>]

\* write_cache that leaves the directory as it is.
write_cache_Dropped(c, path, html) == c

\* open(cache_path, 'w') and f.write(html) (lines 236-237).
write_cache(c, path, html) ==
    [p \in DOMAIN c \cup {path} |-> IF p = path THEN html ELSE c[p]]

\* ------------------------------------------------------------- state
VARIABLES
    force_download,   \* self.force_download
    update_cache,     \* self.update_cache
    network,          \* the network during the call: "up", or "down" (every request fails)
    cache,            \* the cache directory: cache path -> text of the file
    pc,               \* "idle", or the request get_html waits for: "head", "get"
    call,             \* the current or last get_html call: url and base_url
    full_url,         \* local of get_html while it runs
    cache_file_size,  \* local of get_html, set at line 199
    nHead,            \* HEAD requests made by the call
    nGet,             \* GET requests made by the call
    lastHead,         \* outcome of the call's latest HEAD attempt
    lastGet,          \* outcome of the call's latest GET attempt
    ret,              \* how the call ended: the document returned or the exception
    cache0,           \* the cache directory as the call found it
    prev              \* how the call before ended, when it was a call for the same
                      \* URL made with the network down and an entry in the cache

cacheVars == <<force_download, update_cache, network, cache, pc, call, full_url,
               cache_file_size, nHead, nGet, lastHead, lastGet, ret, cache0, prev>>

\* The identity store as get_or_create_person sees it.
VARIABLES
    persons,          \* the Person table: row i is the Person with id i
    identifiers,      \* the PersonIdentifier table: rows of person, scheme, identifier
    person_call,      \* the latest get_or_create_person call: name and filer_id
    person_ret,       \* what it returned, (person, created), or the exception
    owner             \* filer_id -> the Person the first call with it returned

personVars == <<persons, identifiers, person_call, person_ret, owner>>

\* The store and the command as get_or_create_post sees them.
VARIABLES
    divisions,          \* the Division table
    jurisdictions,      \* the Jurisdiction table: row i has id i
    organizations,      \* the Organization table: row i has id i
    posts,              \* the Post table: row i has id i
    state_division,     \* self.state_division
    state_jurisdiction, \* self.state_jurisdiction; 0 until handle sets it
    executive_branch,   \* self.executive_branch; 0 until handle sets it
    sos,                \* self.sos; 0 until handle sets it
    post_call,          \* the latest get_or_create_post call: office_name
    post_ret,           \* what it returned, (post, created), or the exception
    resolved,           \* office_name -> the Post the first call with it returned
    elections           \* the Election table: row i has id i

postVars == <<divisions, jurisdictions, organizations, posts, state_division,
              state_jurisdiction, executive_branch, sos, post_call, post_ret,
              resolved, elections>>

\* Two invocations of the scraper at work on one cache file.
VARIABLES
    shared_file,      \* the file at the cache path: whether it exists, and its text
    entry0,           \* the file as it was before the two invocations
    fetched,          \* the response texts the invocations' GET requests brought
    options,          \* invocation -> its force_download and update_cache
    at,               \* invocation -> the line of get_html it is about to run
    size_seen,        \* invocation -> cache_file_size, set at line 199
    response_text,    \* invocation -> html, set at line 231
    outcome,          \* invocation -> what its get_html returned, or raised
    in_window         \* invocation -> its latest look at the file that fell
                      \* between the other's open (line 236) and write (line 237)

concVars == <<shared_file, entry0, fetched, options, at, size_seen,
              response_text, outcome, in_window>>

\* A run of ScrapeCommand.handle.
VARIABLES
    force_flush,      \* self.force_flush
    cache_dir,        \* whether the cache directory exists
    handle_at,        \* the line handle is about to run, or how the run ended
    events,           \* the calls the run has made so far, in order
    results,          \* what scrape() returned
    saved             \* the arguments of the run's save() calls

handleVars == <<force_flush, cache_dir, handle_at, events, results, saved>>

\* Where the cache entries come from.
VARIABLES
    origin            \* cache path -> the site the text of the entry was fetched from

vars == <<cacheVars, personVars, postVars, concVars, handleVars, origin>>

\* What the actions of the scrape cache leave alone.
outside_cache == <<personVars, postVars, concVars, handleVars>>

\* What the steps of get_html leave alone when no entry is written.
outside_fetch == <<origin>>

\* What get_or_create_person leaves alone.
outside_person == <<cacheVars, postVars, concVars, handleVars,
                    origin>>

\* What the commands that load posts leave alone.
outside_post == <<cacheVars, personVars, concVars, handleVars,
                  origin>>

\* What the two invocations leave alone.
outside_conc == <<cacheVars, personVars, postVars, handleVars,
                  origin>>

\* What the steps of handle leave alone: all but the options.
outside_handle == <<network, cache, pc, call, full_url, cache_file_size, nHead, nGet,
                    lastHead, lastGet, ret, cache0, prev, personVars, postVars,
                    concVars, origin>>

NoCall == [kind |-> "none"]
NoRet == [kind |-> "none", via |-> "none"]
NoOutcome == [kind |-> "none"]
NoUrl == [site |-> "none"]
EmptyDir == [p \in {} |-> << >>]

Returned(html, how) == [kind |-> "return", doc |-> BeautifulSoup(html), via |-> how]
Raised(exc) == [kind |-> "raise", exc |-> exc, via |-> "raise"]

\* The scrape cache at rest.
CacheAtRest ==
    /\ force_download = FALSE
    /\ update_cache = TRUE
    /\ network = "up"
    /\ cache = EmptyDir
    /\ pc = "idle"
    /\ call = NoCall
    /\ full_url = NoUrl
    /\ cache_file_size = None
    /\ nHead = 0
    /\ nGet = 0
    /\ lastHead = NoOutcome
    /\ lastGet = NoOutcome
    /\ ret = NoRet
    /\ cache0 = EmptyDir
    /\ prev = NoCall

\* The identity store before the first load: no Person.
PersonInit ==
    /\ persons = << >>
    /\ identifiers = << >>
    /\ person_call = NoCall
    /\ person_ret = NoRet
    /\ owner = EmptyDir

\* A Division attribute of the command that has not been set.
NoDivision == [id |-> "unset", subid1 |-> "", subtype2 |-> "", subid2 |-> << >>]

\* The store before any division, organization or post is loaded, and a
\* command whose handle has not run.
PostAtRest ==
    /\ divisions = {}
    /\ jurisdictions = << >>
    /\ organizations = << >>
    /\ posts = << >>
    /\ state_division = NoDivision
    /\ state_jurisdiction = 0
    /\ executive_branch = 0
    /\ sos = 0
    /\ post_call = NoCall
    /\ post_ret = NoRet
    /\ resolved = EmptyDir
    /\ elections = << >>

\* The two invocations of the scraper.
Invocations == {"A", "B"}

NoFile == [exists |-> FALSE, text |-> << >>]

\* No invocation under way.
ConcAtRest ==
    /\ shared_file = NoFile
    /\ entry0 = NoFile
    /\ fetched = {}
    /\ options = [i \in Invocations |-> [force_download |-> FALSE, update_cache |-> TRUE]]
    /\ at = [i \in Invocations |-> "done"]
    /\ size_seen = [i \in Invocations |-> None]
    /\ response_text = [i \in Invocations |-> << >>]
    /\ outcome = [i \in Invocations |-> NoRet]
    /\ in_window = [i \in Invocations |-> "none"]

\* No run of handle under way.
\* No entry in the cache directory, so none to tell the site of.
NoOrigin == origin = EmptyDir

HandleAtRest ==
    /\ force_flush = FALSE
    /\ cache_dir = "exists"
    /\ handle_at = "idle"
    /\ events = << >>
    /\ results = "none"
    /\ saved = << >>

Init ==
    /\ force_download \in BOOLEAN
    /\ update_cache \in BOOLEAN
    /\ network \in {"up", "down"}
    /\ cache = EmptyDir
    /\ pc = "idle"
    /\ call = NoCall
    /\ full_url = NoUrl
    /\ cache_file_size = None
    /\ nHead = 0
    /\ nGet = 0
    /\ lastHead = NoOutcome
    /\ lastGet = NoOutcome
    /\ ret = NoRet
    /\ cache0 = EmptyDir
    /\ prev = NoCall
    /\ PersonInit
    /\ PostAtRest
    /\ ConcAtRest
    /\ HandleAtRest
    /\ NoOrigin

\* ScrapeCommand.handle, lines 145-149: a run of the command sets the
\* options; the cache directory is kept from the runs before.
handle(fd, uc) ==
    /\ pc = "idle"
    /\ force_download' = fd
    /\ update_cache' = uc
    /\ call' = NoCall
    /\ ret' = NoRet
    /\ prev' = NoCall
    /\ nHead' = 0
    /\ nGet' = 0
    /\ lastHead' = NoOutcome
    /\ lastGet' = NoOutcome
    /\ cache0' = cache
    /\ UNCHANGED <<network, cache, pc, full_url, cache_file_size>>
    /\ UNCHANGED outside_cache

\* get_html ends: its locals are gone.
Finish(r) ==
    /\ ret' = r
    /\ pc' = "idle"
    /\ full_url' = NoUrl
    /\ cache_file_size' = None

\* get_html, lines 186-215 up to its first request.  `net` is the state of
\* the network the call meets.
get_html(url, base_url, net) ==
    /\ pc = "idle"
    /\ LET path == cache_path(url)
           exists == path \in DOMAIN cache
       IN  /\ call' = [kind |-> "get_html", url |-> url, base_url |-> base_url]
           /\ network' = net
           /\ prev' = IF /\ call # NoCall
                         /\ call.url = url
                         /\ call.base_url = base_url
                         /\ network = "down"
                         /\ cache_path(call.url) \in DOMAIN cache0
                      THEN [kind |-> "get_html", ret |-> ret]
                      ELSE NoCall
           /\ cache0' = cache
           /\ nHead' = 0
           /\ nGet' = 0
           /\ lastHead' = NoOutcome
           /\ lastGet' = NoOutcome
           /\ IF TryCache(exists, force_download)
              THEN IF ChecksSize(update_cache)
                   THEN /\ cache_file_size' = getsize(cache[path])
                        /\ full_url' = urljoin(base_url, url)
                        /\ pc' = "head"
                        /\ ret' = NoRet
                   ELSE IF ShouldReuse(update_cache, None, None)
                        THEN Finish(Returned(cache[path], "reuse"))
                        ELSE /\ full_url' = urljoin(base_url, url)
                             /\ cache_file_size' = None
                             /\ pc' = "get"
                             /\ ret' = NoRet
              ELSE /\ full_url' = urljoin(base_url, url)
                   /\ cache_file_size' = None
                   /\ pc' = "get"
                   /\ ret' = NoRet
    /\ UNCHANGED <<force_download, update_cache, cache>>
    /\ UNCHANGED outside_cache

\* One attempt of get_headers' HEAD request (line 200) and, when it is the
\* last, lines 201-215.
HeadAttempt ==
    /\ pc = "head"
    /\ \E o \in HeadOutcomes(network) :
         LET made == nHead + 1
             path == cache_path(call.url)
         IN  /\ nHead' = made
             /\ lastHead' = o
             /\ IF o.kind = "response"
                THEN IF ShouldReuse(update_cache, cache_file_size, get_headers(o))
                     THEN Finish(Returned(cache[path], "reuse"))
                     ELSE /\ pc' = "get"
                          /\ UNCHANGED <<ret, full_url, cache_file_size>>
                ELSE IF retry(o.kind, made)
                     THEN UNCHANGED <<pc, ret, full_url, cache_file_size>>
                     ELSE Finish(Raised(o.kind))
    /\ UNCHANGED <<force_download, update_cache, network, cache, call, nGet,
                   lastGet, cache0, prev>>
    /\ UNCHANGED outside_cache

\* One attempt of the live GET (line 219) and, when it is the last, lines
\* 220-240.
GetAttempt ==
    /\ pc = "get"
    /\ \E o \in GetOutcomes(network) :
         LET made == nGet + 1
             path == cache_path(call.url)
         IN  /\ nGet' = made
             /\ lastGet' = o
             /\ IF o.kind = "response"
                THEN /\ cache' = write_cache(cache, path, o.text)
                     /\ Finish(Returned(o.text, "live"))
                ELSE /\ UNCHANGED cache
                     /\ IF retry(o.kind, made)
                        THEN UNCHANGED <<pc, ret, full_url, cache_file_size>>
                        ELSE IF except_HTTPError(o.kind) /\ path \in DOMAIN cache
                             THEN Finish(Returned(cache[path], "fallback"))
                             ELSE Finish(Raised(o.kind))
    /\ UNCHANGED <<force_download, update_cache, network, call, nHead, lastHead,
                   cache0, prev>>
    /\ UNCHANGED outside_cache

Next ==
    \/ \E fd \in BOOLEAN, uc \in BOOLEAN : handle(fd, uc) /\ UNCHANGED outside_fetch
    \/ \E url \in Urls, base_url \in BaseUrls, net \in {"up", "down"} :
         get_html(url, base_url, net) /\ UNCHANGED outside_fetch
    \/ HeadAttempt /\ UNCHANGED outside_fetch
    \/ GetAttempt /\ UNCHANGED outside_fetch

Spec == Init /\ [][Next]_vars

\* A call that started runs to its end: every request attempt returns or
\* raises (the HTTP client blocks, it does not hang forever).
FairSpec ==
    /\ Spec
    /\ WF_vars(HeadAttempt /\ UNCHANGED outside_fetch)
    /\ WF_vars(GetAttempt /\ UNCHANGED outside_fetch)

\* ------------------------------------------ the sites of the entries
\* The entry step and the request attempts of get_html, with the site of
\* every entry written kept beside the cache directory.
fetch_began(url, base_url, net) == get_html(url, base_url, net) /\ UNCHANGED origin

fetch_head == HeadAttempt /\ UNCHANGED origin

fetch_get ==
    /\ GetAttempt
    /\ origin' = IF lastGet'.kind = "response"
                 THEN [p \in DOMAIN cache' |->
                         IF p = cache_path(call.url) THEN full_url.site ELSE origin[p]]
                 ELSE origin

NextFetch ==
    \/ \E fd \in BOOLEAN, uc \in BOOLEAN : handle(fd, uc) /\ UNCHANGED origin
    \/ \E url \in Urls, base_url \in BaseUrls, net \in {"up", "down"} :
         fetch_began(url, base_url, net)
    \/ fetch_head
    \/ fetch_get

SpecFetch == Init /\ [][NextFetch]_vars

\* ------------------------------------------------- reading the state
\* A get_html call has begun (and may have ended) in this run.
Started == call # NoCall

\* The call has ended.
Done == Started /\ pc = "idle"

\* The cache path of the call, and whether the call found an entry there.
Path == cache_path(call.url)
Had == Path \in DOMAIN cache0

\* The call went on to the live GET.
WentLive == pc = "get" \/ nGet >= 1

Is2xx(o) == o.kind = "response" /\ o.status \in 200..299

\* The step is the end of a live fetch of cache path p that got a 2xx
\* response.
SuccessfulFetchOf(p) ==
    /\ pc = "get"
    /\ pc' = "idle"
    /\ cache_path(call.url) = p
    /\ Is2xx(lastGet')

\* ------------------------------------------------------------ claims

\* C1: if the live GET of get_html fails with a transient network error
\* once the retries are used up, the call returns the cached content when
\* the path has a cache entry and raises only when it has none.
C1_NetworkErrorFallsBack ==
    (Done /\ lastGet.kind = "ConnectionError") =>
        IF Had
        THEN ret.kind = "return" /\ ret.doc = BeautifulSoup(cache0[Path])
        ELSE ret.kind = "raise"

\* C2: for every setting of force_download and update_cache, with an entry
\* in the cache and the network unreachable, two successive get_html calls
\* for the same URL both return without raising, return the same cached
\* content, and leave the cache entry as it was.
C2_OfflineTwiceSameContent ==
    (Done /\ prev # NoCall /\ network = "down" /\ Had) =>
        /\ prev.ret.kind = "return"
        /\ ret.kind = "return"
        /\ prev.ret.doc = ret.doc
        /\ ret.doc = BeautifulSoup(cache0[Path])
        /\ cache = cache0

\* C3: when the live fetch raises HTTPError, the call returns the cached
\* content if the path has a cache entry; otherwise the same error reaches
\* the caller and no cache entry is created.
C3_HTTPErrorFallback ==
    (Done /\ lastGet.kind = "HTTPError") =>
        /\ cache = cache0
        /\ IF Had
           THEN ret = Returned(cache0[Path], "fallback")
           ELSE ret = Raised("HTTPError") /\ Path \notin DOMAIN cache

C3_Witness ==
    /\ Done
    /\ lastGet.kind = "HTTPError"
    /\ Had
    /\ ret.kind = "return"
    /\ ret.via = "fallback"

\* C4: a live GET that yields a non-2xx response is handled as a failure:
\* with a cache entry the call returns the content cached before and the
\* entry is not overwritten; without one the failure reaches the caller
\* and no entry is written.
C4_Non2xxIsFailure ==
    (Done /\ lastGet.kind = "response" /\ ~Is2xx(lastGet)) =>
        /\ cache = cache0
        /\ IF Had
           THEN ret.kind = "return" /\ ret.doc = BeautifulSoup(cache0[Path])
           ELSE ret.kind = "raise" /\ Path \notin DOMAIN cache

\* C5: with a cache entry, force_download off and update_cache on, the
\* call returns the cached content without any GET exactly when the size
\* of the cached file equals the content-length of the HEAD response; for
\* every other content-length, a missing one too, it goes on to the GET.
C5_FreshnessDecision ==
    (Started /\ ~force_download /\ update_cache /\ Had
             /\ lastHead.kind = "response") =>
        LET h == lastHead.headers
            same == /\ "content-length" \in DOMAIN h
                    /\ h["content-length"] = Len(cache0[Path])
        IN  /\ same => /\ pc = "idle"
                       /\ ret = Returned(cache0[Path], "reuse")
                       /\ nGet = 0
            /\ ~same => WentLive /\ ret.via # "reuse"

C5_Witness ==
    /\ Done
    /\ ~force_download
    /\ update_cache
    /\ Had
    /\ cache0[Path] # << >>
    /\ lastHead.kind = "response"
    /\ ret.via = "reuse"

\* C6: with update_cache off, force_download off and a cache entry, the
\* call returns the cached content whatever its size and makes no request,
\* neither HEAD nor GET.
C6_CacheOnlyNoRequest ==
    (Started /\ ~update_cache /\ ~force_download /\ Had) =>
        /\ pc = "idle"
        /\ ret = Returned(cache0[Path], "reuse")
        /\ nHead = 0
        /\ nGet = 0
        /\ cache = cache0

C6_Witness ==
    /\ Done
    /\ ~update_cache
    /\ ~force_download
    /\ Had
    /\ cache0[Path] # << >>
    /\ ret.kind = "return"

C8_ForceDownloadSkipsCache ==
    (Started /\ force_download) =>
        /\ nHead = 0
        /\ WentLive
        /\ ret.kind = "return" => ret.via \in {"live", "fallback"}
        /\ (ret.kind = "return" /\ ret.via = "fallback") =>
               lastGet.kind \in RequestException

C8_Witness ==
    /\ Done
    /\ force_download
    /\ update_cache
    /\ Had
    /\ Is2xx(lastGet)
    /\ ret.via = "live"

\* C9: a cache entry exists only if a live fetch of its path succeeded and
\* holds the body of the latest successful live fetch of the path; the
\* document a successful live fetch returns is the parse of the body
\* written.  Stated on the steps, the cache directory being empty at
\* first: an entry is never deleted, it is created or changed only by a
\* successful live fetch of its path, and every successful live fetch of a
\* path leaves its body in the entry and returns the parse of it.
C9_CacheIsLatestSuccessfulFetch ==
    [][\A p \in CachePaths :
         /\ p \in DOMAIN cache => p \in DOMAIN cache'
         /\ (p \in DOMAIN cache' /\ (p \notin DOMAIN cache \/ cache'[p] # cache[p]))
               => SuccessfulFetchOf(p)
         /\ SuccessfulFetchOf(p) =>
               /\ p \in DOMAIN cache'
               /\ cache'[p] = lastGet'.text
               /\ ret' = Returned(cache'[p], "live")
      ]_vars

\* C10: get_url retries only after an attempt that raised a request
\* exception, at most DefaultRetries times, so that one get_url call makes
\* at most 1 + DefaultRetries requests and ends with a response or an
\* exception; every get_html call ends.
C10_RetryBoundedCallEnds ==
    /\ [](/\ nHead <= 1 + DefaultRetries
          /\ nGet <= 1 + DefaultRetries
          /\ (pc = "head" /\ nHead > 0) => lastHead.kind \in RequestException
          /\ (pc = "get" /\ nGet > 0) => lastGet.kind \in RequestException
          /\ Done => ret.kind \in {"return", "raise"})
    /\ (pc # "idle") ~> (pc = "idle")

C10_Witness ==
    /\ Done
    /\ nGet = 1 + DefaultRetries
    /\ lastGet.kind = "ConnectionError"
    /\ ret.kind = "raise"

\* =================================================================
\* LoadOCDModelsCommand.get_or_create_person
\* =================================================================

\* The name strings of the filings, character by character.
SMITH_JOHN == <<"S", "M", "I", "T", "H", ",", " ", "J", "O", "H", "N">>
JOHN_SMITH == <<"J", "O", "H", "N", " ", "S", "M", "I", "T", "H">>
Last_First_Middle ==
    <<"L", "a", "s", "t", ",", " ", "F", "i", "r", "s", "t", " ",
      "M", "i", "d", "d", "l", "e">>
First_Middle_Last ==
    <<"F", "i", "r", "s", "t", " ", "M", "i", "d", "d", "l", "e", " ",
      "L", "a", "s", "t">>
DOE_JR_AL == <<"D", "O", "E", ",", " ", "J", "R", ",", " ", "A", "L">>
CHER == <<"C", "H", "E", "R", " ">>

\* The name arguments of get_or_create_person.
RawNames == {SMITH_JOHN, Last_First_Middle, DOE_JR_AL, CHER}

\* The filer_id arguments: None (the default), the empty string, and ids.
FilerIds == {"None", "", "1234", "5678"}

\* Line 395 and line 412, `if filer_id:`.
truthy(filer_id) == filer_id \notin {"None", ""}

\* str.split(sep): the segments between the separators.
RECURSIVE split(_, _)
split(s, sep) ==
    IF \A i \in 1..Len(s) : s[i] # sep
    THEN <<s>>
    ELSE LET i == CHOOSE k \in 1..Len(s) :
                      s[k] = sep /\ \A j \in 1..(k - 1) : s[j] # sep
         IN  <<SubSeq(s, 1, i - 1)>> \o split(SubSeq(s, i + 1, Len(s)), sep)

\* list.reverse().
reverse(l) == [i \in 1..Len(l) |-> l[Len(l) + 1 - i]]

\* sep.join(list).
RECURSIVE join(_, _)
join(sep, l) ==
    IF l = << >> THEN << >>
    ELSE IF Len(l) = 1 THEN l[1]
    ELSE l[1] \o <<sep>> \o join(sep, Tail(l))

\* str.strip(): the blanks at both ends removed.
RECURSIVE strip_blanks(_)
strip_blanks(s) ==
    IF s # << >> /\ Head(s) = " " THEN strip_blanks(Tail(s))
    ELSE IF s # << >> /\ s[Len(s)] = " " THEN strip_blanks(SubSeq(s, 1, Len(s) - 1))
    ELSE s

\* flip_name with the segments left in their order.
flip_name_Unreversed(name) == strip_blanks(join(" ", split(name, ",")))

\* Lines 406-410: split and flip the original name string.
flip_name(name) == strip_blanks(join(" ", reverse(split(name, ","))))

\* Person_get that never finds the filer id.
Person_get_Blind(ids, filer_id) == [kind |-> "DoesNotExist", person |-> 0]

\* Person.objects.get(identifiers__scheme='calaccess_filer_id',
\* identifiers__identifier=filer_id), lines 397-400: one row of the join
\* of Person and its identifiers, or DoesNotExist, or
\* MultipleObjectsReturned.
Person_get(ids, filer_id) ==
    LET rows == {i \in DOMAIN ids : /\ ids[i].scheme = "calaccess_filer_id"
                                    /\ ids[i].identifier = filer_id}
    IN  IF rows = {} THEN [kind |-> "DoesNotExist", person |-> 0]
        ELSE IF Cardinality(rows) = 1
        THEN [kind |-> "found", person |-> ids[CHOOSE i \in rows : TRUE].person]
        ELSE [kind |-> "MultipleObjectsReturned", person |-> 0]

\* Person_get_or_create that makes a new Person every time.
Person_get_or_create_Fresh(table, sort_name, name) ==
    [kind |-> "ok", person |-> Len(table) + 1, created |-> TRUE,
     table |-> Append(table, [sort_name |-> sort_name, name |-> name])]

\* Person.objects.get_or_create(sort_name=..., name=...), lines 408-411:
\* the Person with these values, created when there is none.
Person_get_or_create(table, sort_name, name) ==
    LET row == [sort_name |-> sort_name, name |-> name]
        rows == {i \in DOMAIN table : table[i] = row}
    IN  IF rows = {}
        THEN [kind |-> "ok", person |-> Len(table) + 1, created |-> TRUE,
              table |-> Append(table, row)]
        ELSE IF Cardinality(rows) = 1
        THEN [kind |-> "ok", person |-> CHOOSE i \in rows : TRUE, created |-> FALSE,
              table |-> table]
        ELSE [kind |-> "MultipleObjectsReturned", person |-> 0, created |-> FALSE,
              table |-> table]

\* NeedsName that takes the name path whatever was found.
NeedsName_Always(person) == TRUE

\* Line 404, `if not person:`; 0 stands for None.
NeedsName(person) == person = 0

\* attach that adds no identifier.
attach_Dropped(ids, person, filer_id) == ids

\* Lines 412-416: person.identifiers.create(...) when a filer_id is given.
attach(ids, person, filer_id) ==
    IF truthy(filer_id)
    THEN Append(ids, [person |-> person, scheme |-> "calaccess_filer_id",
                      identifier |-> filer_id])
    ELSE ids

\* created_flag that reports what get_or_create reported.
created_flag_OfRow(row_created) == row_created

\* Line 417, `created = True`.
created_flag(row_created) == TRUE

PersonReturned(person, created, how, row_created) ==
    [kind |-> "return", person |-> person, created |-> created, via |-> how,
     row_created |-> row_created]

\* get_or_create_person, lines 392-419.
get_or_create_person(name, filer_id) ==
    LET looked == IF truthy(filer_id)
                  THEN Person_get(identifiers, filer_id)
                  ELSE [kind |-> "DoesNotExist", person |-> 0]
        person == looked.person
        got == Person_get_or_create(persons, name, flip_name(name))
        result ==
            IF looked.kind = "MultipleObjectsReturned"
            THEN Raised("MultipleObjectsReturned")
            ELSE IF ~NeedsName(person)
            THEN PersonReturned(person, FALSE, "filer", FALSE)
            ELSE IF got.kind = "MultipleObjectsReturned"
            THEN Raised("MultipleObjectsReturned")
            ELSE PersonReturned(got.person, created_flag(got.created), "name",
                                got.created)
    IN  /\ person_call' = [kind |-> "get_or_create_person", name |-> name,
                           filer_id |-> filer_id]
        /\ person_ret' = result
        /\ IF result.kind = "return" /\ result.via = "name"
           THEN /\ persons' = got.table
                /\ identifiers' = attach(identifiers, got.person, filer_id)
           ELSE UNCHANGED <<persons, identifiers>>
        /\ owner' = IF /\ result.kind = "return"
                       /\ truthy(filer_id)
                       /\ filer_id \notin DOMAIN owner
                    THEN [f \in DOMAIN owner \cup {filer_id} |->
                            IF f = filer_id THEN result.person ELSE owner[f]]
                    ELSE owner
        /\ UNCHANGED outside_person

InitPerson ==
    CacheAtRest /\ PersonInit /\ PostAtRest /\ ConcAtRest /\ HandleAtRest /\ NoOrigin

NextPerson ==
    \E name \in RawNames, filer_id \in FilerIds : get_or_create_person(name, filer_id)

SpecPerson == InitPerson /\ [][NextPerson]_vars

\* ------------------------------------------------- get_or_create_post
\* Office names, character by character.
ASSEMBLY03 ==
    <<"A", "S", "S", "E", "M", "B", "L", "Y", "0", "3">>
assembly03 ==
    <<"a", "s", "s", "e", "m", "b", "l", "y", "0", "3">>
STATE_SENATE12 ==
    <<"S", "T", "A", "T", "E", " ", "S", "E", "N", "A", "T", "E", "1", "2">>
SECRETARY_OF_STATE ==
    <<"S", "E", "C", "R", "E", "T", "A", "R", "Y", " ", "O", "F", " ", "S",
      "T", "A", "T", "E">>
MEMBER_BOARD_OF_EQUALIZATION ==
    <<"M", "E", "M", "B", "E", "R", " ", "B", "O", "A", "R", "D", " ", "O",
      "F", " ", "E", "Q", "U", "A", "L", "I", "Z", "A", "T", "I", "O", "N">>
GOVERNOR ==
    <<"G", "O", "V", "E", "R", "N", "O", "R">>
ASSEMBLY ==
    <<"A", "S", "S", "E", "M", "B", "L", "Y">>
STATE_SENATE ==
    <<"S", "T", "A", "T", "E", " ", "S", "E", "N", "A", "T", "E">>
DIGITS_123 ==
    <<"1", "2", "3">>
ASSEMBLY3 ==
    <<"A", "S", "S", "E", "M", "B", "L", "Y", "3">>
ASSEMBLY003 ==
    <<"A", "S", "S", "E", "M", "B", "L", "Y", "0", "0", "3">>

\* The office_name arguments of get_or_create_post: with and without a
\* district, in either case, of every office type, and names the pattern
\* rejects.
OfficeNames ==
    {ASSEMBLY03, assembly03, STATE_SENATE12, SECRETARY_OF_STATE,
     MEMBER_BOARD_OF_EQUALIZATION, GOVERNOR, ASSEMBLY, STATE_SENATE,
     DIGITS_123, ASSEMBLY3, ASSEMBLY003}

\* The roles set at lines 351, 362 and 371.
Senator ==
    <<"S", "e", "n", "a", "t", "o", "r">>
Assembly_Member ==
    <<"A", "s", "s", "e", "m", "b", "l", "y", " ", "M", "e", "m", "b", "e",
      "r">>
Board_Member ==
    <<"B", "o", "a", "r", "d", " ", "M", "e", "m", "b", "e", "r">>

LowerCase ==
    <<"a", "b", "c", "d", "e", "f", "g", "h", "i", "j", "k", "l", "m",
      "n", "o", "p", "q", "r", "s", "t", "u", "v", "w", "x", "y", "z">>
UpperCase ==
    <<"A", "B", "C", "D", "E", "F", "G", "H", "I", "J", "K", "L", "M",
      "N", "O", "P", "Q", "R", "S", "T", "U", "V", "W", "X", "Y", "Z">>
Digits == <<"0", "1", "2", "3", "4", "5", "6", "7", "8", "9">>

\* The places of character c in the sequence abc.
places(c, abc) == {i \in DOMAIN abc : abc[i] = c}

is_lower(c) == places(c, LowerCase) # {}
is_upper(c) == places(c, UpperCase) # {}
is_digit(c) == places(c, Digits) # {}
is_cased(c) == is_lower(c) \/ is_upper(c)

upper_char(c) ==
    IF is_lower(c) THEN UpperCase[CHOOSE i \in places(c, LowerCase) : TRUE] ELSE c
lower_char(c) ==
    IF is_upper(c) THEN LowerCase[CHOOSE i \in places(c, UpperCase) : TRUE] ELSE c

\* str.upper(), line 331.
upper(s) == [i \in 1..Len(s) |-> upper_char(s[i])]

\* title that leaves the name as it was given.
title_AsGiven(s) == s

\* str.title(), line 339: a letter after a character that is not a letter
\* is put in upper case, every other letter in lower case.
title(s) ==
    [i \in 1..Len(s) |->
        IF i = 1 \/ ~is_cased(s[i - 1]) THEN upper_char(s[i]) ELSE lower_char(s[i])]

\* str.replace(old, new), line 339: every occurrence from the left.
RECURSIVE replace(_, _, _)
replace(s, old, new) ==
    IF s = << >> THEN << >>
    ELSE IF Len(s) >= Len(old) /\ SubSeq(s, 1, Len(old)) = old
    THEN new \o replace(SubSeq(s, Len(old) + 1, Len(s)), old, new)
    ELSE <<Head(s)>> \o replace(Tail(s), old, new)

\* Line 339, the label of the Post.
post_label(office_name) == replace(title(office_name), <<"O", "f">>, <<"o", "f">>)

\* The characters of [A-Z ].
in_type_class(c) == is_upper(c) \/ c = " "

\* The length of the longest run of [A-Z ] that s starts with.
type_run(s) ==
    LET stops == {i \in 1..Len(s) : ~in_type_class(s[i])}
    IN  IF stops = {} THEN Len(s)
        ELSE (CHOOSE i \in stops : \A j \in stops : i <= j) - 1

NoMatch == [ok |-> FALSE, type |-> << >>, district |-> << >>]

\* re_match that takes every string as an office type without district.
re_match_Lenient(s) == [ok |-> TRUE, type |-> s, district |-> << >>]

\* re.match(r'^(?P<type>[A-Z ]+)(?P<district>\d{2})?$', s), lines 329-331.
\* The type is the whole leading run of [A-Z ], for what follows it must be
\* a digit or the end; the district group is two digits or took no part
\* (None, written << >>).
re_match(s) ==
    LET n == type_run(s)
        rest == SubSeq(s, n + 1, Len(s))
    IN  IF /\ n >= 1
           /\ \/ rest = << >>
              \/ Len(rest) = 2 /\ is_digit(rest[1]) /\ is_digit(rest[2])
        THEN [ok |-> TRUE, type |-> SubSeq(s, 1, n), district |-> rest]
        ELSE NoMatch

\* int(string of digits), line 334.
RECURSIVE int(_)
int(ds) ==
    IF ds = << >> THEN 0
    ELSE 10 * int(SubSeq(ds, 1, Len(ds) - 1))
           + (CHOOSE i \in places(ds[Len(ds)], Digits) : TRUE) - 1

\* str(n) of a natural number, lines 345 and 356.
RECURSIVE str(_)
str(n) == IF n < 10 THEN <<Digits[n + 1]>> ELSE str(n \div 10) \o <<Digits[(n % 10) + 1]>>

\* The Division rows of California that load_divisions brings: the state,
\* and districts of the lower (sldl) and the upper (sldu) chamber.
StateDivision ==
    [id |-> "ocd-division/country:us/state:ca", subid1 |-> "ca",
     subtype2 |-> "", subid2 |-> << >>]
District(subtype2, subid2) ==
    [id |-> "district", subid1 |-> "ca", subtype2 |-> subtype2, subid2 |-> subid2]
CA_DIVISIONS ==
    {StateDivision,
     District("sldl", <<"3">>), District("sldl", <<"1", "2">>),
     District("sldu", <<"3">>), District("sldu", <<"1", "2">>)}

\* Division.objects.get(subid1='ca', subtype2=..., subid2=...), lines 342
\* and 353.
Division_get(table, subtype2, subid2) ==
    LET rows == {dv \in table : /\ dv.subid1 = "ca"
                                /\ dv.subtype2 = subtype2
                                /\ dv.subid2 = subid2}
    IN  IF rows = {} THEN [kind |-> "DoesNotExist", division |-> NoDivision]
        ELSE IF Cardinality(rows) = 1
        THEN [kind |-> "found", division |-> CHOOSE dv \in rows : TRUE]
        ELSE [kind |-> "MultipleObjectsReturned", division |-> NoDivision]

\* Organization_get_or_create that makes a new Organization every time.
Organization_get_or_create_Fresh(table, name, classification, parent) ==
    [kind |-> "ok", org |-> Len(table) + 1, created |-> TRUE,
     table |-> Append(table, [name |-> name, classification |-> classification,
                              parent |-> parent])]

\* Organization.objects.get_or_create(name=..., classification=...,
\* parent=...): the row that matches the criteria given, created when there
\* is none. A classification of "*" and a parent of 0 stand for a criterion
\* that is not given: it matches every row, and a row created without it
\* has the default, '' and None.
Organization_get_or_create(table, name, classification, parent) ==
    LET rows == {i \in DOMAIN table :
                    /\ table[i].name = name
                    /\ classification # "*" => table[i].classification = classification
                    /\ parent # 0 => table[i].parent = parent}
        row == [name |-> name,
                classification |-> IF classification = "*" THEN "" ELSE classification,
                parent |-> IF parent = 0 THEN None ELSE parent]
    IN  IF rows = {}
        THEN [kind |-> "ok", org |-> Len(table) + 1, created |-> TRUE,
              table |-> Append(table, row)]
        ELSE IF Cardinality(rows) = 1
        THEN [kind |-> "ok", org |-> CHOOSE i \in rows : TRUE, created |-> FALSE,
              table |-> table]
        ELSE [kind |-> "MultipleObjectsReturned", org |-> 0, created |-> FALSE,
              table |-> table]

\* Jurisdiction.objects.get_or_create(...), lines 283-288.
Jurisdiction_get_or_create(table, row) ==
    LET rows == {i \in DOMAIN table : table[i] = row}
    IN  IF rows = {}
        THEN [kind |-> "ok", jurisdiction |-> Len(table) + 1, table |-> Append(table, row)]
        ELSE IF Cardinality(rows) = 1
        THEN [kind |-> "ok", jurisdiction |-> CHOOSE i \in rows : TRUE, table |-> table]
        ELSE [kind |-> "MultipleObjectsReturned", jurisdiction |-> 0, table |-> table]

\* Post.objects.get_or_create(**raw_post), line 379.
Post_get_or_create(table, raw_post) ==
    LET rows == {i \in DOMAIN table : table[i] = raw_post}
    IN  IF rows = {}
        THEN [kind |-> "ok", post |-> Len(table) + 1, created |-> TRUE,
              table |-> Append(table, raw_post)]
        ELSE IF Cardinality(rows) = 1
        THEN [kind |-> "ok", post |-> CHOOSE i \in rows : TRUE, created |-> FALSE,
              table |-> table]
        ELSE [kind |-> "MultipleObjectsReturned", post |-> 0, created |-> FALSE,
              table |-> table]

\* Lines 329-339 for each office name: the match of the pattern against the
\* name in upper case, and the label.
office_parsed ==
    [office_name \in OfficeNames |->
        [match |-> re_match(upper(office_name)), label |-> post_label(office_name)]]

\* district_bound that takes district_num for set in every call.
district_bound_Always(district) == TRUE

\* Lines 333-336: district_num is set when the district group took part in
\* the match; int(None) raises TypeError, which is passed over, and leaves
\* the name without a value.
district_bound(district) == district # << >>

\* post_role that always takes the label.
post_role_Label(office_type, label) == label

\* raw_post['role'], lines 351, 362, 371, 374 and 377.
post_role(office_type, label) ==
    IF office_type = STATE_SENATE THEN Senator
    ELSE IF office_type = ASSEMBLY THEN Assembly_Member
    ELSE IF office_type = MEMBER_BOARD_OF_EQUALIZATION THEN Board_Member
    ELSE label

\* The Division lookup of the two legislative branches, lines 342-346 and
\* 353-357: the district of the upper or of the lower chamber.
post_district(table, office_type, district_num) ==
    Division_get(table, IF office_type = STATE_SENATE THEN "sldu" ELSE "sldl",
                 str(district_num))

\* raw_post['organization'], lines 347-350, 358-361, 366-369, 373 and 376.
post_organization(table, office_type, exec, secretary) ==
    IF office_type = STATE_SENATE
    THEN Organization_get_or_create(table, "California State Senate", "upper", 0)
    ELSE IF office_type = ASSEMBLY
    THEN Organization_get_or_create(table, "California State Assembly", "lower", 0)
    ELSE IF office_type = MEMBER_BOARD_OF_EQUALIZATION
    THEN Organization_get_or_create(table, "State Board of Equalization", "*", exec)
    ELSE IF office_type = SECRETARY_OF_STATE
    THEN [kind |-> "ok", org |-> secretary, created |-> FALSE, table |-> table]
    ELSE [kind |-> "ok", org |-> exec, created |-> FALSE, table |-> table]

PostReturned(post, created) ==
    [kind |-> "return", post |-> post, created |-> created, via |-> "get_or_create"]

\* LoadOCDModelsCommand.handle, lines 267-297: the state division, loaded
\* with all divisions when it is missing, the state jurisdiction, the
\* executive branch and the Secretary of State.
LoadOCDModelsCommand_handle ==
    LET found == {dv \in divisions : dv.id = StateDivision.id}
        loaded == IF found = {} THEN divisions \cup CA_DIVISIONS ELSE divisions
        ca == CHOOSE dv \in loaded : dv.id = StateDivision.id
        j == Jurisdiction_get_or_create(jurisdictions,
                 [name |-> "California State Government", url |-> "http://www.ca.gov",
                  division |-> ca, classification |-> "government"])
        e == Organization_get_or_create(organizations,
                 "California State Executive Branch", "executive", 0)
        o == Organization_get_or_create(e.table,
                 "California Secretary of State", "executive", e.org)
    IN  /\ j.kind = "ok" /\ e.kind = "ok" /\ o.kind = "ok"
        /\ divisions' = loaded
        /\ state_division' = ca
        /\ jurisdictions' = j.table
        /\ state_jurisdiction' = j.jurisdiction
        /\ executive_branch' = e.org
        /\ organizations' = o.table
        /\ sos' = o.org
        /\ post_call' = [kind |-> "handle", office_name |-> << >>]
        /\ post_ret' = NoRet
        /\ UNCHANGED <<posts, resolved, elections>>
        /\ UNCHANGED outside_post

\* get_or_create_post, lines 329-379.
get_or_create_post(office_name) ==
    LET match == office_parsed[office_name].match
        office_type == strip_blanks(match.type)
        has_district == district_bound(match.district)
        district_num == int(match.district)
        label == office_parsed[office_name].label
        legislative == office_type \in {STATE_SENATE, ASSEMBLY}
        dv == IF legislative
              THEN post_district(divisions, office_type, district_num)
              ELSE [kind |-> "found", division |-> state_division]
        org == post_organization(organizations, office_type, executive_branch, sos)
        raw_post == [label |-> label, division |-> dv.division,
                     organization |-> org.org, role |-> post_role(office_type, label)]
        got == Post_get_or_create(posts, raw_post)
        \* how far the call gets: "match", "district", "division",
        \* "organization", or to "post", the get_or_create of line 379
        reached ==
            IF ~match.ok THEN "match"
            ELSE IF legislative /\ ~has_district THEN "district"
            ELSE IF legislative /\ dv.kind # "found" THEN "division"
            ELSE IF ~legislative /\ state_division = NoDivision THEN "division"
            ELSE IF org.kind # "ok" THEN "organization"
            ELSE "post"
        result ==
            IF reached = "match" THEN Raised("AttributeError")
            ELSE IF reached = "district" THEN Raised("UnboundLocalError")
            ELSE IF reached = "division"
            THEN Raised(IF legislative THEN dv.kind ELSE "AttributeError")
            ELSE IF reached = "organization" THEN Raised(org.kind)
            ELSE IF got.kind # "ok" THEN Raised(got.kind)
            ELSE PostReturned(got.post, got.created)
    IN  /\ post_call' = [kind |-> "get_or_create_post", office_name |-> office_name]
        /\ post_ret' = result
        /\ organizations' = IF reached = "post" THEN org.table ELSE organizations
        /\ posts' = IF result.kind = "return" THEN got.table ELSE posts
        /\ resolved' = IF result.kind = "return" /\ office_name \notin DOMAIN resolved
                       THEN [n \in DOMAIN resolved \cup {office_name} |->
                               IF n = office_name THEN result.post ELSE resolved[n]]
                       ELSE resolved
        /\ UNCHANGED <<divisions, jurisdictions, state_division, state_jurisdiction,
                       executive_branch, sos, elections>>
        /\ UNCHANGED outside_post

\* The store before the posts are loaded: the divisions are there already,
\* or not yet; no command has run.
PostInit ==
    /\ divisions \in {{}, CA_DIVISIONS}
    /\ jurisdictions = << >>
    /\ organizations = << >>
    /\ posts = << >>
    /\ state_division = NoDivision
    /\ state_jurisdiction = 0
    /\ executive_branch = 0
    /\ sos = 0
    /\ post_call = NoCall
    /\ post_ret = NoRet
    /\ resolved = EmptyDir
    /\ elections = << >>

InitPost ==
    CacheAtRest /\ PersonInit /\ PostInit /\ ConcAtRest /\ HandleAtRest /\ NoOrigin

NextPost ==
    \/ LoadOCDModelsCommand_handle
    \/ \E office_name \in OfficeNames : get_or_create_post(office_name)

SpecPost == InitPost /\ [][NextPost]_vars

\* ------------------------------------------------------ create_election
\* The name and date_obj arguments of create_election.
ElectionNames == {"2016 GENERAL", "2016 PRIMARY"}
ElectionDates == {"2016-11-08"}

\* Election_create that returns the Election of the same values when there
\* is one.
Election_create_Once(table, row) ==
    IF \E i \in DOMAIN table : table[i] = row
    THEN [election |-> CHOOSE i \in DOMAIN table : table[i] = row, table |-> table]
    ELSE [election |-> Len(table) + 1, table |-> Append(table, row)]

\* Election.objects.create(...), lines 308-317: a new row every time.
Election_create(table, row) ==
    [election |-> Len(table) + 1, table |-> Append(table, row)]

\* create_election, lines 303-318. Without handle before it, self.sos is
\* not there and line 306 raises AttributeError.
create_election(name, date_obj) ==
    LET admin == Organization_get_or_create(organizations, "Elections Division",
                                            "executive", sos)
        row == [start_time |-> date_obj, name |-> name, all_day |-> TRUE,
                timezone |-> "US/Pacific", classification |-> "election",
                administrative_organization |-> admin.org,
                division |-> state_division, jurisdiction |-> state_jurisdiction]
        obj == Election_create(elections, row)
        made == sos # 0 /\ admin.kind = "ok"
    IN  /\ Len(elections) < MaxElections
        /\ post_call' = [kind |-> "create_election", name |-> name, date_obj |-> date_obj]
        /\ post_ret' = IF sos = 0 THEN Raised("AttributeError")
                       ELSE IF admin.kind # "ok" THEN Raised(admin.kind)
                       ELSE [kind |-> "return", election |-> obj.election,
                             via |-> "create"]
        /\ organizations' = IF made THEN admin.table ELSE organizations
        /\ elections' = IF made THEN obj.table ELSE elections
        /\ UNCHANGED <<divisions, jurisdictions, posts, state_division,
                       state_jurisdiction, executive_branch, sos, resolved>>
        /\ UNCHANGED outside_post

\* The office names whose Posts belong to an Organization that
\* get_or_create_post makes or looks up by name.
OrganizationOffices == {STATE_SENATE12, ASSEMBLY03, MEMBER_BOARD_OF_EQUALIZATION}

NextElection ==
    \/ LoadOCDModelsCommand_handle
    \/ \E office_name \in OrganizationOffices : get_or_create_post(office_name)
    \/ \E name \in ElectionNames, date_obj \in ElectionDates :
         create_election(name, date_obj)

SpecElection == InitPost /\ [][NextElection]_vars

\* ------------------------------------------- two invocations, one file
\* open_w that keeps the text of the file.
open_w_Keeping(f) == [exists |-> TRUE, text |-> f.text]

\* open(cache_path, 'w'), line 236: the file is there and empty.
open_w(f) == [exists |-> TRUE, text |-> << >>]

\* f.write(html) and the close of the with block, line 237: the text goes
\* into the file from its start, over what is there.
f_write(f, text) ==
    [exists |-> TRUE, text |-> text \o SubSeq(f.text, Len(text) + 1, Len(f.text))]

\* The other invocation stands between its open and its write.
OtherWriting(i) == \E j \in Invocations \ {i} : at[j] = "write"

\* Invocation i goes to `line`, having looked at the file.
looked(i, line, look) ==
    /\ at' = [at EXCEPT ![i] = line]
    /\ in_window' = IF OtherWriting(i) THEN [in_window EXCEPT ![i] = look]
                                         ELSE in_window

\* Invocation i ends with r.
ended(i, r) ==
    /\ at' = [at EXCEPT ![i] = "done"]
    /\ outcome' = [outcome EXCEPT ![i] = r]

\* Line 196: os.path.exists(cache_path) and not self.force_download.
conc_exists(i) ==
    /\ at[i] = "exists"
    /\ LET uc == options[i].update_cache
       IN  looked(i, IF TryCache(shared_file.exists, options[i].force_download)
                     THEN IF ChecksSize(uc) THEN "getsize"
                          ELSE IF ShouldReuse(uc, None, None) THEN "read" ELSE "get"
                     ELSE "get",
                  "exists")
    /\ UNCHANGED <<shared_file, entry0, fetched, options, size_seen,
                   response_text, outcome>>
    /\ UNCHANGED outside_conc

\* Line 199: os.path.getsize(cache_path).
conc_getsize(i) ==
    /\ at[i] = "getsize"
    /\ size_seen' = [size_seen EXCEPT ![i] = getsize(shared_file.text)]
    /\ looked(i, "head", "getsize")
    /\ UNCHANGED <<shared_file, entry0, fetched, options, response_text, outcome>>
    /\ UNCHANGED outside_conc

\* Lines 200-211: get_headers, with the retries of get_url inside it, and
\* the comparison of the sizes.
conc_head(i) ==
    /\ at[i] = "head"
    /\ \E o \in HeadOutcomes("up") :
         IF o.kind = "response"
         THEN /\ at' = [at EXCEPT ![i] =
                          IF ShouldReuse(options[i].update_cache, size_seen[i],
                                         get_headers(o))
                          THEN "read" ELSE "get"]
              /\ UNCHANGED outcome
         ELSE ended(i, Raised(o.kind))
    /\ UNCHANGED <<shared_file, entry0, fetched, options, size_seen,
                   response_text, in_window>>
    /\ UNCHANGED outside_conc

\* Lines 214-215: the cached file is read and returned.
conc_read(i) ==
    /\ at[i] = "read"
    /\ ended(i, Returned(shared_file.text, "reuse"))
    /\ in_window' = IF OtherWriting(i) THEN [in_window EXCEPT ![i] = "read"]
                                         ELSE in_window
    /\ UNCHANGED <<shared_file, entry0, fetched, options, size_seen,
                   response_text>>
    /\ UNCHANGED outside_conc

\* Lines 219-231: get_url, with its retries inside it; the response text
\* is kept, or the exception is caught or goes on.
conc_get(i) ==
    /\ at[i] = "get"
    /\ \E o \in GetOutcomes("up") :
         IF o.kind = "response"
         THEN /\ response_text' = [response_text EXCEPT ![i] = o.text]
              /\ fetched' = fetched \cup {o.text}
              /\ at' = [at EXCEPT ![i] = "open"]
              /\ UNCHANGED outcome
         ELSE /\ UNCHANGED <<response_text, fetched>>
              /\ IF except_HTTPError(o.kind)
                 THEN at' = [at EXCEPT ![i] = "fallback"] /\ UNCHANGED outcome
                 ELSE ended(i, Raised(o.kind))
    /\ UNCHANGED <<shared_file, entry0, options, size_seen, in_window>>
    /\ UNCHANGED outside_conc

\* Lines 222 and 228: os.path.exists(cache_path) after the failed request.
conc_fallback_exists(i) ==
    /\ at[i] = "fallback"
    /\ IF shared_file.exists
       THEN looked(i, "fallback_read", "exists") /\ UNCHANGED outcome
       ELSE ended(i, Raised("HTTPError")) /\ UNCHANGED in_window
    /\ UNCHANGED <<shared_file, entry0, fetched, options, size_seen,
                   response_text>>
    /\ UNCHANGED outside_conc

\* Lines 225-226: the cached file is read and returned.
conc_fallback_read(i) ==
    /\ at[i] = "fallback_read"
    /\ ended(i, Returned(shared_file.text, "fallback"))
    /\ in_window' = IF OtherWriting(i) THEN [in_window EXCEPT ![i] = "read"]
                                         ELSE in_window
    /\ UNCHANGED <<shared_file, entry0, fetched, options, size_seen,
                   response_text>>
    /\ UNCHANGED outside_conc

\* Line 236: open(cache_path, 'w').
conc_open(i) ==
    /\ at[i] = "open"
    /\ shared_file' = open_w(shared_file)
    /\ at' = [at EXCEPT ![i] = "write"]
    /\ UNCHANGED <<entry0, fetched, options, size_seen, response_text, outcome,
                   in_window>>
    /\ UNCHANGED outside_conc

\* Lines 237-240: the text is written, the file closed, the document
\* returned.
conc_write(i) ==
    /\ at[i] = "write"
    /\ shared_file' = f_write(shared_file, response_text[i])
    /\ ended(i, Returned(response_text[i], "live"))
    /\ UNCHANGED <<entry0, fetched, options, size_seen,
                   response_text, in_window>>
    /\ UNCHANGED outside_conc

\* Two invocations, each with its options, about to run get_html for the
\* same URL; the cache file is there from an earlier run, or not.
ConcInit ==
    /\ shared_file \in {NoFile} \cup {[exists |-> TRUE, text |-> t] : t \in Bodies}
    /\ entry0 = shared_file
    /\ fetched = {}
    /\ options \in [Invocations -> [force_download : BOOLEAN, update_cache : BOOLEAN]]
    /\ at = [i \in Invocations |-> "exists"]
    /\ size_seen = [i \in Invocations |-> None]
    /\ response_text = [i \in Invocations |-> << >>]
    /\ outcome = [i \in Invocations |-> NoRet]
    /\ in_window = [i \in Invocations |-> "none"]

InitConc ==
    CacheAtRest /\ PersonInit /\ PostAtRest /\ ConcInit /\ HandleAtRest /\ NoOrigin

NextConc ==
    \E i \in Invocations :
        \/ conc_exists(i)
        \/ conc_getsize(i)
        \/ conc_head(i)
        \/ conc_read(i)
        \/ conc_get(i)
        \/ conc_fallback_exists(i)
        \/ conc_fallback_read(i)
        \/ conc_open(i)
        \/ conc_write(i)

SpecConc == InitConc /\ [][NextConc]_vars

\* ------------------------------------------------ the steps of handle
\* What scrape() can return.
ScrapeResults == {"rows", "no rows"}

\* How a call of flush(), save() or os.mkdir can end.
CallOutcomes == {"return", "raise"}

\* runs_flush that flushes whatever the option.
runs_flush_Always(ff) == TRUE

\* Line 151, `if self.force_flush:`.
runs_flush(ff) == ff

\* The run ends with an exception that handle does not catch.
handle_raises ==
    /\ handle_at' = "raised"
    /\ UNCHANGED <<results, saved>>

\* Lines 143-147: a run of the command begins and sets its options.
handle_options(ff, fd, uc) ==
    /\ handle_at \in {"idle", "done", "raised"}
    /\ force_flush' = ff
    /\ force_download' = fd
    /\ update_cache' = uc
    /\ handle_at' = "cache_dir"
    /\ events' = << >>
    /\ results' = "none"
    /\ saved' = << >>
    /\ UNCHANGED cache_dir
    /\ UNCHANGED outside_handle

\* Line 149, os.path.exists(self.cache_dir) or os.mkdir(self.cache_dir),
\* and the test of line 151.
handle_cache_dir ==
    /\ handle_at = "cache_dir"
    /\ \E o \in CallOutcomes :
         LET next == IF runs_flush(force_flush) THEN "flush" ELSE "scrape"
         IN  IF cache_dir = "exists"
             THEN /\ handle_at' = next
                  /\ UNCHANGED <<cache_dir, events, results, saved>>
             ELSE /\ events' = Append(events, "mkdir")
                  /\ IF o = "return"
                     THEN /\ cache_dir' = "exists"
                          /\ handle_at' = next
                          /\ UNCHANGED <<results, saved>>
                     ELSE /\ handle_raises
                          /\ UNCHANGED cache_dir
    /\ UNCHANGED <<force_flush, force_download, update_cache>>
    /\ UNCHANGED outside_handle

\* Line 152, self.flush().
handle_flush ==
    /\ handle_at = "flush"
    /\ events' = Append(events, "flush")
    /\ \E o \in CallOutcomes :
         IF o = "return"
         THEN handle_at' = "scrape" /\ UNCHANGED <<results, saved>>
         ELSE handle_raises
    /\ UNCHANGED <<force_flush, force_download, update_cache, cache_dir>>
    /\ UNCHANGED outside_handle

\* Line 153, results = self.scrape().
handle_scrape ==
    /\ handle_at = "scrape"
    /\ events' = Append(events, "scrape")
    /\ \E o \in ScrapeResults \cup {"raise"} :
         IF o # "raise"
         THEN /\ results' = o
              /\ handle_at' = "save"
              /\ UNCHANGED saved
         ELSE handle_raises
    /\ UNCHANGED <<force_flush, force_download, update_cache, cache_dir>>
    /\ UNCHANGED outside_handle

\* Line 154, self.save(results).
handle_save ==
    /\ handle_at = "save"
    /\ events' = Append(events, "save")
    /\ saved' = Append(saved, results)
    /\ \E o \in CallOutcomes : handle_at' = IF o = "return" THEN "done" ELSE "raised"
    /\ UNCHANGED <<force_flush, force_download, update_cache, cache_dir, results>>
    /\ UNCHANGED outside_handle

\* Before the first run: the cache directory is there from an earlier
\* run, or not.
HandleInit ==
    /\ force_flush = FALSE
    /\ cache_dir \in {"exists", "missing"}
    /\ handle_at = "idle"
    /\ events = << >>
    /\ results = "none"
    /\ saved = << >>

InitHandle ==
    CacheAtRest /\ PersonInit /\ PostAtRest /\ ConcAtRest /\ HandleInit /\ NoOrigin

NextHandle ==
    \/ \E ff \in BOOLEAN, fd \in BOOLEAN, uc \in BOOLEAN : handle_options(ff, fd, uc)
    \/ handle_cache_dir
    \/ handle_flush
    \/ handle_scrape
    \/ handle_save

SpecHandle == InitHandle /\ [][NextHandle]_vars

\* ------------------------------------------------- reading the store
\* The rows of the identifier table that hold filer id f.
RowsOf(ids, f) ==
    {i \in DOMAIN ids : ids[i].scheme = "calaccess_filer_id" /\ ids[i].identifier = f}

\* The Persons filer id f is attached to.
LinkedTo(ids, f) == {ids[i].person : i \in RowsOf(ids, f)}

\* The filer ids attached to Person i.
FilersOf(ids, i) == {ids[k].identifier : k \in {j \in DOMAIN ids : ids[j].person = i}}

GivenFilerIds == {f \in FilerIds : truthy(f)}

\* The human-order name, worked out from the last comma backwards.
RECURSIVE HumanOrder(_)
HumanOrder(s) ==
    LET commas == {i \in 1..Len(s) : s[i] = ","}
    IN  IF commas = {} THEN s
        ELSE LET last == CHOOSE i \in commas : \A j \in commas : j <= i
             IN  SubSeq(s, last + 1, Len(s)) \o <<" ">>
                   \o HumanOrder(SubSeq(s, 1, last - 1))

\* s from its first to its last character that is not a blank.
Trimmed(s) ==
    LET inked == {i \in 1..Len(s) : s[i] # " "}
    IN  IF inked = {} THEN << >>
        ELSE SubSeq(s, CHOOSE i \in inked : \A j \in inked : i <= j,
                       CHOOSE i \in inked : \A j \in inked : j <= i)

\* C11: after any sequence of get_or_create_person calls each
\* calaccess_filer_id identifier is attached to at most one Person and
\* appears at most once; an identifier is attached only when no Person is
\* linked to it yet.
C11_OnePersonPerFilerId ==
    [][\A f \in GivenFilerIds :
         /\ Cardinality(RowsOf(identifiers', f)) <= 1
         /\ Cardinality(LinkedTo(identifiers', f)) <= 1
         /\ RowsOf(identifiers', f) # RowsOf(identifiers, f)
               => LinkedTo(identifiers, f) = {}
      ]_vars

C11_Witness ==
    /\ Len(identifiers) = 2
    /\ person_ret.kind = "return"
    /\ person_ret.via = "filer"

\* C12: once get_or_create_person has been called with filer id F, every
\* later call with F returns the same Person with created = false, whatever
\* the name, and creates no Person and no identifier.
C12_SamePersonForFilerId ==
    [][\A f \in GivenFilerIds :
         (f \in DOMAIN owner /\ person_call'.filer_id = f) =>
             /\ person_ret'.kind = "return"
             /\ person_ret'.person = owner[f]
             /\ person_ret'.created = FALSE
             /\ persons' = persons
             /\ identifiers' = identifiers
      ]_vars

C12_Witness ==
    /\ person_ret.kind = "return"
    /\ person_call.filer_id \in DOMAIN owner
    /\ person_ret.person = owner[person_call.filer_id]
    /\ person_ret.created = FALSE
    /\ persons[person_ret.person].sort_name # person_call.name

\* Person i was made from its name alone: it is there and has no filer id.
NameOnly(i, name) ==
    /\ i \in DOMAIN persons
    /\ persons[i].sort_name = name
    /\ FilersOf(identifiers, i) = {}

\* The step is a call with `name` and a filer id f that no Person is linked
\* to, made when Person i is the name-only Person of `name`.
LaterCallWithFilerId(i, name, f) ==
    /\ NameOnly(i, name)
    /\ LinkedTo(identifiers, f) = {}
    /\ person_call' = [kind |-> "get_or_create_person", name |-> name, filer_id |-> f]

C15_NameNormalization ==
    /\ \A i \in DOMAIN persons :
         /\ persons[i].name = Trimmed(HumanOrder(persons[i].sort_name))
         /\ persons[i].sort_name = SMITH_JOHN => persons[i].name = JOHN_SMITH
         /\ persons[i].sort_name = Last_First_Middle
               => persons[i].name = First_Middle_Last
    /\ (person_ret.kind = "return" /\ person_ret.via = "name") =>
           persons[person_ret.person].sort_name = person_call.name

C15_Witness ==
    /\ \E i \in DOMAIN persons : persons[i].sort_name = SMITH_JOHN
    /\ \E i \in DOMAIN persons : persons[i].sort_name = Last_First_Middle
    /\ \E i \in DOMAIN persons : persons[i].sort_name = DOE_JR_AL
    /\ person_ret.kind = "return"
    /\ person_ret.via = "name"

\* ------------------------------------------------- reading the posts
\* The step is a get_or_create_post call; the state is the one it left.
PostCalled == post_call.kind = "get_or_create_post"
PostCallReturned == PostCalled /\ post_ret.kind = "return"

\* Each office name in upper case.
InUpperCase == [office_name \in OfficeNames |-> upper(office_name)]

\* The office names that returned a Post before and are `office_name` up to
\* the case of the letters.
ResolvedAlike(office_name) ==
    {n \in DOMAIN resolved : InUpperCase[n] = InUpperCase[office_name]}

\* The office type of an office name the pattern accepts.
OfficeTypeOf(office_name) == strip_blanks(office_parsed[office_name].match.type)

Secretary_of_State_label ==
    <<"S", "e", "c", "r", "e", "t", "a", "r", "y", " ", "o", "f", " ", "S",
      "t", "a", "t", "e">>
Assembly03_label ==
    <<"A", "s", "s", "e", "m", "b", "l", "y", "0", "3">>

\* C16: get_or_create_post is idempotent and blind to the case of the
\* letters: a call whose office name, up to case, returned a Post before
\* returns that same Post with created = false and adds no Post; a call
\* that returns otherwise reports created = true; and no two Posts have the
\* same (label, division, organization, role).
C16_PostIdempotent ==
    [][(post_call'.kind = "get_or_create_post") =>
         LET alike == ResolvedAlike(post_call'.office_name)
         IN  /\ alike # {} =>
                   /\ post_ret'.kind = "return"
                   /\ \A n \in alike : post_ret'.post = resolved[n]
                   /\ post_ret'.created = FALSE
                   /\ posts' = posts
             /\ (alike = {} /\ post_ret'.kind = "return") =>
                   /\ post_ret'.created = TRUE
                   /\ Len(posts') = Len(posts) + 1
             /\ \A i, j \in DOMAIN posts' : posts'[i] = posts'[j] => i = j
      ]_vars

C16_Witness ==
    /\ PostCallReturned
    /\ post_call.office_name = assembly03
    /\ post_ret.created = FALSE
    /\ ASSEMBLY03 \in DOMAIN resolved
    /\ resolved[ASSEMBLY03] = post_ret.post
    /\ posts[post_ret.post].label = Assembly03_label
    /\ Len(posts) > 1

\* C17: a call that returns has dispatched on the office type as the table
\* says. STATE SENATE: the upper-chamber district, "California State
\* Senate" (upper), "Senator". ASSEMBLY: the lower-chamber district,
\* "California State Assembly" (lower), "Assembly Member". MEMBER BOARD OF
\* EQUALIZATION: the state division, "State Board of Equalization" under the
\* executive branch, "Board Member". SECRETARY OF STATE: the state
\* division, the Secretary of State organization, the label. Every other
\* type: the state division, the executive branch, the label.
C17_DispatchTable ==
    PostCallReturned =>
        LET office_name == post_call.office_name
            type == OfficeTypeOf(office_name)
            post == posts[post_ret.post]
            org == organizations[post.organization]
        IN  /\ type = STATE_SENATE =>
                  /\ post.division.subtype2 = "sldu"
                  /\ office_name = STATE_SENATE12
                        => post.division = District("sldu", <<"1", "2">>)
                  /\ org = [name |-> "California State Senate",
                            classification |-> "upper", parent |-> None]
                  /\ post.role = Senator
            /\ type = ASSEMBLY =>
                  /\ post.division.subtype2 = "sldl"
                  /\ office_name \in {ASSEMBLY03, assembly03}
                        => post.division = District("sldl", <<"3">>)
                  /\ org = [name |-> "California State Assembly",
                            classification |-> "lower", parent |-> None]
                  /\ post.role = Assembly_Member
            /\ type = MEMBER_BOARD_OF_EQUALIZATION =>
                  /\ post.division = StateDivision
                  /\ org.name = "State Board of Equalization"
                  /\ org.parent = executive_branch
                  /\ organizations[executive_branch].name
                        = "California State Executive Branch"
                  /\ post.role = Board_Member
            /\ type = SECRETARY_OF_STATE =>
                  /\ post.division = StateDivision
                  /\ post.organization = sos
                  /\ org.name = "California Secretary of State"
                  /\ post.role = post.label
                  /\ post.label = Secretary_of_State_label
            /\ type \notin {STATE_SENATE, ASSEMBLY, MEMBER_BOARD_OF_EQUALIZATION,
                             SECRETARY_OF_STATE} =>
                  /\ post.division = StateDivision
                  /\ post.organization = executive_branch
                  /\ org.name = "California State Executive Branch"
                  /\ post.role = post.label

C17_Witness ==
    /\ PostCallReturned
    /\ post_call.office_name = MEMBER_BOARD_OF_EQUALIZATION
    /\ {STATE_SENATE12, ASSEMBLY03, SECRETARY_OF_STATE, GOVERNOR,
         MEMBER_BOARD_OF_EQUALIZATION} \subseteq DOMAIN resolved
    /\ Len(posts) = Len(organizations)

\* The office names the pattern does not match: no leading letters, one
\* trailing digit, three trailing digits.
Unparseable == {DIGITS_123, ASSEMBLY3, ASSEMBLY003}

\* C18: a get_or_create_post call with an office name that does not match
\* the pattern raises instead of returning a Post, and creates no Post and
\* no Organization.
C18_UnparseableIsFatal ==
    [][(post_call'.kind = "get_or_create_post"
          /\ post_call'.office_name \in Unparseable) =>
            /\ post_ret'.kind = "raise"
            /\ post_ret'.exc = "AttributeError"
            /\ posts' = posts
            /\ organizations' = organizations
      ]_vars

C18_Witness ==
    /\ PostCalled
    /\ post_call.office_name = DIGITS_123
    /\ post_ret.kind = "raise"
    /\ executive_branch # 0
    /\ posts # << >>

\* ------------------------------------------- reading the invocations
\* Invocation i has returned a text that is not the entry found before the
\* two invocations and not a text that a GET of either brought.
TornReturn(i) ==
    /\ outcome[i].kind = "return"
    /\ outcome[i].via \in {"reuse", "fallback"}
    /\ entry0.exists
    /\ outcome[i].doc # BeautifulSoup(entry0.text)
    /\ \A t \in fetched : outcome[i].doc # BeautifulSoup(t)

\* C19: two invocations on one cache file are unsafe. A look at the file
\* that falls between the other invocation's truncating open and its write
\* finds the file there and empty: the existence check passes, the size is
\* 0, and a read returns the empty text, whatever the entry was before and
\* whatever is being fetched.
C19_WindowShowsTruncatedFile ==
    [][\A i \in Invocations :
         (OtherWriting(i) /\ at'[i] # at[i]) =>
             /\ (at[i] = "exists" /\ ~options[i].force_download)
                   => at'[i] \in {"getsize", "read"}
             /\ at[i] = "fallback" => at'[i] = "fallback_read"
             /\ at[i] = "getsize" => size_seen'[i] = 0
             /\ at[i] \in {"read", "fallback_read"}
                   => outcome'[i].doc = BeautifulSoup(<< >>)
      ]_vars

C19_Witness ==
    \E i \in Invocations :
        /\ TornReturn(i)
        /\ in_window[i] = "read"
        /\ outcome[i].doc = BeautifulSoup(<< >>)

\* --------------------------------------------------- reading the run
\* The places of call c in the events of the run.
At(c) == {k \in DOMAIN events : events[k] = c}
Called(c) == At(c) # {}

\* Call c, when made, was made before call e, when made.
Before(c, e) == \A k \in At(c), l \in At(e) : k < l

\* The run ended in an exception raised by call c.
RaisedBy(c) ==
    handle_at = "raised" /\ events # << >> /\ events[Len(events)] = c

\* C20: handle runs its steps in a fixed order, each at most once: the
\* cache directory is there before flush, scrape or save is called; flush
\* is called, and before scrape, if and only if force_flush is set; save is
\* called once a run that ends well, after scrape returned and with the
\* value it returned; a run in which flush or scrape raised calls no save.
C20_HandleOrder ==
    /\ \A c \in {"mkdir", "flush", "scrape", "save"} : Cardinality(At(c)) <= 1
    /\ Before("mkdir", "flush") /\ Before("mkdir", "scrape")
    /\ Before("flush", "scrape") /\ Before("scrape", "save")
    /\ (Called("flush") \/ Called("scrape") \/ Called("save")) => cache_dir = "exists"
    /\ Called("flush") => force_flush
    /\ Called("scrape") => (Called("flush") <=> force_flush)
    /\ Called("save") <=> saved # << >>
    /\ Called("save") =>
          /\ Called("scrape")
          /\ results \in ScrapeResults
          /\ saved = <<results>>
    /\ handle_at = "done" => Called("save")
    /\ (RaisedBy("mkdir") \/ RaisedBy("flush") \/ RaisedBy("scrape")) => ~Called("save")

C20_Witness ==
    /\ handle_at = "done"
    /\ force_flush
    /\ events = <<"mkdir", "flush", "scrape", "save">>
    /\ saved = <<"rows">>

\* --------------------------------------------- reading the cache keys
\* The cache entry of each relative URL, and the site of each base_url.
KeyOf(url) == IF url = <<"y">> THEN <<"y">> ELSE <<"x">>
SiteOf(base_url) ==
    IF base_url = "None" THEN "http://cal-access.ss.ca.gov/" ELSE base_url

\* C21: the cache entry of a get_html call is that of its relative URL,
\* whatever its base_url: the request goes to the site of base_url, the
\* text it brings is written to the entry of the URL alone, and a call
\* that returns the cache returns that entry, from whichever site its text
\* was fetched.
C21_CacheKeyIgnoresBaseUrl ==
    [][/\ (pc = "get" /\ lastGet'.kind = "response") =>
            LET key == KeyOf(call.url)
            IN  /\ key \in DOMAIN cache'
                /\ cache'[key] = lastGet'.text
                /\ origin'[key] = SiteOf(call.base_url)
                /\ \A p \in DOMAIN cache' \ {key} :
                      p \in DOMAIN cache /\ cache'[p] = cache[p] /\ origin'[p] = origin[p]
       /\ (pc' = "idle" /\ ret'.kind = "return" /\ ret'.via \in {"reuse", "fallback"}) =>
            LET key == KeyOf(call'.url)
            IN  /\ key \in DOMAIN cache
                /\ ret'.doc = BeautifulSoup(cache[key])
                /\ cache' = cache
      ]_vars

C21_Witness ==
    /\ Done
    /\ ret.kind = "return"
    /\ ret.via = "reuse"
    /\ ret.doc # BeautifulSoup(<< >>)
    /\ origin[Path] # SiteOf(call.base_url)

\* C22: a get_or_create_person call with the name of a Person that holds a
\* filer id already and with another filer id, linked to nobody, returns
\* that Person, with created = true, and attaches the new filer id beside
\* the old: a Person can hold several filer ids, and callers that share a
\* name string share the Person.
C22_SameNameSharesPerson ==
    [][\A i \in 1..Len(persons), f \in GivenFilerIds :
         (/\ FilersOf(identifiers, i) # {}
          /\ LinkedTo(identifiers, f) = {}
          /\ person_call' = [kind |-> "get_or_create_person",
                             name |-> persons[i].sort_name, filer_id |-> f]) =>
             /\ person_ret'.kind = "return"
             /\ person_ret'.person = i
             /\ person_ret'.created = TRUE
             /\ persons' = persons
             /\ FilersOf(identifiers', i) = FilersOf(identifiers, i) \cup {f}
             /\ Cardinality(FilersOf(identifiers', i)) >= 2
      ]_vars

C22_Witness ==
    /\ person_ret.kind = "return"
    /\ person_ret.via = "name"
    /\ Len(persons) = 1
    /\ FilersOf(identifiers, 1) = {"1234", "5678"}
    /\ person_ret.person = 1

\* C23: get_or_create_post with STATE SENATE or ASSEMBLY and no district, a
\* name the pattern accepts, raises instead of returning a Post: the name
\* district_num has no value when the Division is looked up, and the call
\* ends before any Organization or Post is created.
C23_NoDistrictIsFatal ==
    [][(post_call'.kind = "get_or_create_post"
          /\ post_call'.office_name \in {STATE_SENATE, ASSEMBLY}) =>
            /\ office_parsed[post_call'.office_name].match.ok
            /\ post_ret' = Raised("UnboundLocalError")
            /\ posts' = posts
            /\ organizations' = organizations
      ]_vars

C23_Witness ==
    /\ PostCalled
    /\ post_call.office_name = STATE_SENATE
    /\ post_ret.kind = "raise"
    /\ post_ret.exc = "UnboundLocalError"
    /\ divisions = CA_DIVISIONS
    /\ sos # 0
    /\ ASSEMBLY03 \in DOMAIN resolved

\* C24: get_html writes the cache only when a live GET has returned a
\* response, and then only the entry of its path. A call that ends on the
\* reuse path, on the fallback path or by raising leaves every entry as the
\* call found it, and a call that raises having found no entry leaves its
\* path without one.
C24_WritesOnlyAfterLiveGet ==
    [][/\ cache' # cache =>
            /\ pc = "get"
            /\ lastGet'.kind = "response"
            /\ ret' = Returned(lastGet'.text, "live")
            /\ \A p \in DOMAIN cache \ {Path} :
                  p \in DOMAIN cache' /\ cache'[p] = cache[p]
       /\ (pc' = "idle" /\ (ret'.via \in {"reuse", "fallback"} \/ ret'.kind = "raise")) =>
            /\ cache' = cache0'
            /\ cache' = cache
            /\ (ret'.kind = "raise" /\ cache_path(call'.url) \notin DOMAIN cache0')
                  => cache_path(call'.url) \notin DOMAIN cache'
      ]_vars

C24_Witness ==
    /\ Done
    /\ ret.kind = "raise"
    /\ nGet > 0
    /\ ~Had
    /\ Path \notin DOMAIN cache
    /\ cache # EmptyDir
    /\ cache = cache0

\* ----------------------------------------------- reading the tables
\* The Organizations called `name`.
Named(name) == {i \in DOMAIN organizations : organizations[i].name = name}

\* The Organizations that handle, get_or_create_post and create_election
\* look up.
OrganizationNames ==
    {"California State Executive Branch", "California Secretary of State",
     "Elections Division", "California State Senate", "California State Assembly",
     "State Board of Equalization"}

\* C25: after any sequence of handle, get_or_create_post and
\* create_election calls there is at most one Organization of each name
\* these look up, and at most one California State Government jurisdiction.
C25_OrganizationsAreSingletons ==
    /\ \A name \in OrganizationNames : Cardinality(Named(name)) <= 1
    /\ \A i \in DOMAIN organizations : organizations[i].name \in OrganizationNames
    /\ Cardinality({j \in DOMAIN jurisdictions :
                       jurisdictions[j].name = "California State Government"}) <= 1

C25_Witness ==
    /\ \A name \in OrganizationNames : Cardinality(Named(name)) = 1
    /\ Len(jurisdictions) = 1
    /\ Len(posts) = Cardinality(OrganizationOffices)
    /\ Len(elections) = MaxElections
    /\ post_call.kind = "handle"

\* C26: create_election is not a get-or-create. Every call that returns
\* adds one Election, a new row also when an Election of the same name and
\* date is there, and returns it; the Elections Division it refers to is
\* the one Organization of that name.
C26_ElectionAlwaysCreated ==
    [][(post_call'.kind = "create_election" /\ post_ret'.kind = "return") =>
         LET new == Len(elections) + 1
             admins == {i \in DOMAIN organizations' :
                          organizations'[i].name = "Elections Division"}
         IN  /\ Len(elections') = new
             /\ post_ret'.election = new
             /\ SubSeq(elections', 1, Len(elections)) = elections
             /\ elections'[new].name = post_call'.name
             /\ elections'[new].start_time = post_call'.date_obj
             /\ admins = {elections'[new].administrative_organization}
             /\ organizations'[elections'[new].administrative_organization].parent = sos
      ]_vars

C26_Witness ==
    /\ post_call.kind = "create_election"
    /\ post_ret.kind = "return"
    /\ Len(elections) = 2
    /\ elections[1] = elections[2]
    /\ Cardinality(Named("Elections Division")) = 1

====
